---- MODULE Spec2Model ----
(***************************************************************************)
(* Question router, query handlers and dispatch pipeline of the sales      *)
(* document analysis agent (advanced_sales_agent.py) and the first-match   *)
(* total-sales handler of the basic agent (basic_sales_agent.py).          *)
(*                                                                         *)
(* A Python str is a sequence of one-character strings, so that lower()    *)
(* and the substring test `in` are computed character by character.  A     *)
(* DataFrame is [columns |-> names, rows |-> rows], a row being the        *)
(* sequence of its cells in column order; the first cell is the product    *)
(* name, the others are amounts in hundredths (1050 is 10.50).  A dict     *)
(* whose keys are column names is the sequence of its <<key, value>>       *)
(* pairs in insertion order.  A handler's "result" is a tagged value:      *)
(* kind "str" for a plain string, kind "list" for a list of records.       *)
(***************************************************************************)
EXTENDS Integers, Sequences, FiniteSets, TLC

VARIABLES
    question,           \* state["question"]
    data,               \* the DataFrame object that state["data"] refers to
    intermediate_steps, \* the list object of the input state
    tool_name,          \* call_tool's local tool_name
    tool_response,      \* tool_response["result"]
    updated_steps,      \* updated_state["intermediate_steps"]
    final_answer,       \* what run_agent returns
    pc                  \* position in run_agent / in the basic workflow

vars == <<question, data, intermediate_steps, tool_name, tool_response,
          updated_steps, final_answer, pc>>

-----------------------------------------------------------------------------
(* Bounds of the model *)

MaxWords == 3
MaxRows == 2
MaxTopRows == 6

(* nlargest(5, ...) *)
TopN == 5

-----------------------------------------------------------------------------
(* String literals of the program *)

ProductNameCol == <<"P", "r", "o", "d", "u", "c", "t", " ", "N", "a", "m", "e">>
TotalSalesCol == <<"T", "o", "t", "a", "l", " ", "S", "a", "l", "e", "s">>
KwProduct == <<"p", "r", "o", "d", "u", "c", "t">>
KwSales == <<"s", "a", "l", "e", "s">>
KwSell == <<"s", "e", "l", "l">>
KwTop == <<"t", "o", "p">>
KwSelling == <<"s", "e", "l", "l", "i", "n", "g">>
KwMonth == <<"m", "o", "n", "t", "h">>

NoMatchingProducts == "No matching products found in the data."
NoMonthMentioned == "No specific month mentioned in the question."
NoAnswerFound == "I couldn't find an answer to your question."
ProductNotFound == "Product not found in the data."
NoSalesData == "No sales data available for this product."

Text(s) == [kind |-> "str", value |-> s]
List(l) == [kind |-> "list", value |-> l]
None == [kind |-> "none", value |-> ""]

-----------------------------------------------------------------------------
(* str.lower() and the substring test *)

UpperAlpha == <<"A", "B", "C", "D", "E", "F", "G", "H", "I", "J", "K", "L", "M",
                "N", "O", "P", "Q", "R", "S", "T", "U", "V", "W", "X", "Y", "Z">>
LowerAlpha == <<"a", "b", "c", "d", "e", "f", "g", "h", "i", "j", "k", "l", "m",
                "n", "o", "p", "q", "r", "s", "t", "u", "v", "w", "x", "y", "z">>

\* the lower-case letter of each upper-case letter
LowerOf == [c \in {UpperAlpha[i] : i \in DOMAIN UpperAlpha} |->
               LowerAlpha[CHOOSE i \in DOMAIN UpperAlpha : UpperAlpha[i] = c]]

LowerChar(c) == IF c \in DOMAIN LowerOf THEN LowerOf[c] ELSE c

RECURSIVE Lower(_)
Lower(s) == IF s = <<>> THEN <<>> ELSE <<LowerChar(Head(s))>> \o Lower(Tail(s))

\* needle in hay
Contains(hay, needle) ==
    \E i \in 0..(Len(hay) - Len(needle)) : SubSeq(hay, i + 1, i + Len(needle)) = needle

IsDigit(c) == c \in {"0", "1", "2", "3", "4", "5", "6", "7", "8", "9"}

\* re.match(r"^\d{4}-\d{2}$", col); $ also matches before one trailing newline
MatchesMonthPattern(col) ==
    LET core(s) == /\ \A i \in {1, 2, 3, 4, 6, 7} : IsDigit(s[i])
                   /\ s[5] = "-"
    IN  \/ Len(col) = 7 /\ core(col)
        \/ Len(col) = 8 /\ col[8] = "\n" /\ core(col)

-----------------------------------------------------------------------------
(* DataFrame access *)

ColumnIndex(d, name) == CHOOSE i \in 1..Len(d.columns) : d.columns[i] = name

\* data[name]
Column(d, name) == [r \in 1..Len(d.rows) |-> d.rows[r][ColumnIndex(d, name)]]

RECURSIVE SumCells(_)
SumCells(cells) ==
    IF cells = <<>> THEN 0 ELSE Head(cells) + SumCells(Tail(cells))

\* data[data.columns[1:]].sum(axis=1), for one row
RowTotal(row) == SumCells(Tail(row))

\* data[name] = values
SetColumn(d, name, values) ==
    IF \E i \in 1..Len(d.columns) : d.columns[i] = name
    THEN [d EXCEPT !.rows = [r \in 1..Len(d.rows) |->
                                [d.rows[r] EXCEPT ![ColumnIndex(d, name)] = values[r]]]]
    ELSE [columns |-> Append(d.columns, name),
          rows |-> [r \in 1..Len(d.rows) |-> Append(d.rows[r], values[r])]]

-----------------------------------------------------------------------------
(* get_product_sales *)

\* variant: the product name is not lowercased (C5 tells it from ProductMatches)
ProductMatchesCaseSensitive(q, product) == Contains(Lower(q), product)

\* str(product).lower() in question.lower()
ProductMatches(q, product) == Contains(Lower(q), Lower(product))

get_product_sales(q, d) ==
    LET matches(product) == ProductMatches(q, product)
        products == SelectSeq(Column(d, ProductNameCol), matches)
        same(product) ==
            LET is(row) == row[ColumnIndex(d, ProductNameCol)] = product
            IN  SelectSeq(d.rows, is)
        nonempty(product) == same(product) # <<>>
        kept == SelectSeq(products, nonempty)
        sales(row) == [j \in 1..(Len(row) - 1) |-> <<d.columns[j + 1], row[j + 1]>>]
        results == [k \in 1..Len(kept) |->
                       [product |-> kept[k], sales |-> sales(same(kept[k])[1])]]
    IN  IF products = <<>> THEN Text(NoMatchingProducts) ELSE List(results)

-----------------------------------------------------------------------------
(* get_top_products *)

\* variant: "Total Sales" is assigned to the caller's table, without the copy
\* (C10 tells it from TopProductsFrames)
TopProductsFramesInPlace(d) ==
    LET totals == [r \in 1..Len(d.rows) |-> RowTotal(d.rows[r])]
        changed == SetColumn(d, TotalSalesCol, totals)
    IN  [caller |-> changed, local |-> changed]

\* The caller's table and the handler's local table once "Total Sales" is
\* assigned: the handler works on a copy.
TopProductsFrames(d) ==
    LET copy == d
        totals == [r \in 1..Len(copy.rows) |-> RowTotal(copy.rows[r])]
    IN  [caller |-> d, local |-> SetColumn(copy, TotalSalesCol, totals)]

RemoveAt(s, i) == SubSeq(s, 1, i - 1) \o SubSeq(s, i + 1, Len(s))

\* variant: keep="last", the last occurrence first among equal values
\* (C6 tells it from nlargest)
RECURSIVE nlargest_keep_last(_, _, _)
nlargest_keep_last(rows, n, c) ==
    IF n = 0 \/ rows = <<>> THEN <<>>
    ELSE LET best == CHOOSE i \in 1..Len(rows) :
                        /\ \A j \in 1..Len(rows) : rows[j][c] <= rows[i][c]
                        /\ \A j \in (i + 1)..Len(rows) : rows[j][c] < rows[i][c]
         IN  <<rows[best]>> \o nlargest_keep_last(RemoveAt(rows, best), n - 1, c)

\* DataFrame.nlargest(n, column), keep="first": the n largest in descending
\* order, the first occurrence first among equal values
RECURSIVE nlargest(_, _, _)
nlargest(rows, n, c) ==
    IF n = 0 \/ rows = <<>> THEN <<>>
    ELSE LET best == CHOOSE i \in 1..Len(rows) :
                        /\ \A j \in 1..Len(rows) : rows[j][c] <= rows[i][c]
                        /\ \A j \in 1..(i - 1) : rows[j][c] < rows[i][c]
         IN  <<rows[best]>> \o nlargest(RemoveAt(rows, best), n - 1, c)

get_top_products(d) ==
    LET frame == TopProductsFrames(d).local
        p == ColumnIndex(frame, ProductNameCol)
        t == ColumnIndex(frame, TotalSalesCol)
        top_products == nlargest(frame.rows, TopN, t)
    IN  List([k \in 1..Len(top_products) |->
                 << <<ProductNameCol, top_products[k][p]>>,
                    <<TotalSalesCol, top_products[k][t]>> >>])

-----------------------------------------------------------------------------
(* get_monthly_sales *)

\* variant: ascending order (C7 tells it from sort_values)
sort_values_ascending(records) ==
    LET n == Len(records)
        perms == {p \in [1..n -> 1..n] : \A i, j \in 1..n : i # j => p[i] # p[j]}
        ascending(p) ==
            \A k \in 1..(n - 1) : records[p[k]][2][2] <= records[p[k + 1]][2][2]
    IN  {[k \in 1..n |-> records[p[k]]] : p \in {x \in perms : ascending(x)}}

\* DataFrame.sort_values(column, ascending=False) with the default quicksort,
\* which is not stable: every descending arrangement of the records
sort_values(records) ==
    LET n == Len(records)
        perms == {p \in [1..n -> 1..n] : \A i, j \in 1..n : i # j => p[i] # p[j]}
        descending(p) ==
            \A k \in 1..(n - 1) : records[p[k]][2][2] >= records[p[k + 1]][2][2]
    IN  {[k \in 1..n |-> records[p[k]]] : p \in {x \in perms : descending(x)}}

\* the set of results the call can return
get_monthly_sales(q, d) ==
    LET candidate(c) == c \notin {ProductNameCol, TotalSalesCol}
        months_in_data == SelectSeq(d.columns, candidate)
        mentioned(month) == Contains(q, month)
        hits == SelectSeq(months_in_data, mentioned)
    IN  IF hits = <<>> \/ hits[1] = <<>>
        THEN {Text(NoMonthMentioned)}
        ELSE LET found_month == hits[1]
                 names == Column(d, ProductNameCol)
                 values == Column(d, found_month)
                 monthly_sales == [r \in 1..Len(d.rows) |->
                                      << <<ProductNameCol, names[r]>>,
                                         <<found_month, values[r]>> >>]
             IN  {List(s) : s \in sort_values(monthly_sales)}

-----------------------------------------------------------------------------
(* router *)

\* variant: rule 2 tried before rule 1 (C1 tells it from router)
RouterTopFirst(q, d) ==
    LET lowered == Lower(q)
        month_columns == SelectSeq(d.columns, MatchesMonthPattern)
    IN  IF /\ Contains(lowered, KwTop)
           /\ (Contains(lowered, KwProduct) \/ Contains(lowered, KwSelling))
        THEN "get_top_products"
        ELSE IF /\ Contains(lowered, KwProduct)
                /\ (Contains(lowered, KwSales) \/ Contains(lowered, KwSell))
        THEN "get_product_sales"
        ELSE IF \/ Contains(lowered, KwMonth)
                \/ \E i \in 1..Len(month_columns) : Contains(lowered, month_columns[i])
        THEN "get_monthly_sales"
        ELSE "general_query"

\* variant: rule 2 without its "product" alternative (C2 tells it from router)
RouterTopNeedsSelling(q, d) ==
    LET lowered == Lower(q)
        month_columns == SelectSeq(d.columns, MatchesMonthPattern)
    IN  IF /\ Contains(lowered, KwProduct)
           /\ (Contains(lowered, KwSales) \/ Contains(lowered, KwSell))
        THEN "get_product_sales"
        ELSE IF Contains(lowered, KwTop) /\ Contains(lowered, KwSelling)
        THEN "get_top_products"
        ELSE IF \/ Contains(lowered, KwMonth)
                \/ \E i \in 1..Len(month_columns) : Contains(lowered, month_columns[i])
        THEN "get_monthly_sales"
        ELSE "general_query"

\* variant: rule 1 without its "sales" alternative (C3 tells it from router)
RouterProductNeedsSell(q, d) ==
    LET lowered == Lower(q)
        month_columns == SelectSeq(d.columns, MatchesMonthPattern)
    IN  IF Contains(lowered, KwProduct) /\ Contains(lowered, KwSell)
        THEN "get_product_sales"
        ELSE IF /\ Contains(lowered, KwTop)
                /\ (Contains(lowered, KwProduct) \/ Contains(lowered, KwSelling))
        THEN "get_top_products"
        ELSE IF \/ Contains(lowered, KwMonth)
                \/ \E i \in 1..Len(month_columns) : Contains(lowered, month_columns[i])
        THEN "get_monthly_sales"
        ELSE "general_query"

router(q, d) ==
    LET lowered == Lower(q)
        month_columns == SelectSeq(d.columns, MatchesMonthPattern)
    IN  IF /\ Contains(lowered, KwProduct)
           /\ (Contains(lowered, KwSales) \/ Contains(lowered, KwSell))
        THEN "get_product_sales"
        ELSE IF /\ Contains(lowered, KwTop)
                /\ (Contains(lowered, KwProduct) \/ Contains(lowered, KwSelling))
        THEN "get_top_products"
        ELSE IF \/ Contains(lowered, KwMonth)
                \/ \E i \in 1..Len(month_columns) : Contains(lowered, month_columns[i])
        THEN "get_monthly_sales"
        ELSE "general_query"

-----------------------------------------------------------------------------
(* general_query: the language model's answer is opaque text *)

LlmTexts == {"<model answer 1>", "<model answer 2>"}

general_query == {Text(t) : t \in LlmTexts}

-----------------------------------------------------------------------------
(* call_tool, update_state, generate_final_answer *)

\* the results the tool named by the router can return
ToolResults(tool, q, d) ==
    CASE tool = "get_product_sales" -> {get_product_sales(q, d)}
      [] tool = "get_top_products" -> {get_top_products(d)}
      [] tool = "get_monthly_sales" -> get_monthly_sales(q, d)
      [] OTHER -> general_query

\* the table after the tool has run
DataAfter(tool, d) ==
    IF tool = "get_top_products" THEN TopProductsFrames(d).caller ELSE d

\* variant: the response is appended to the input state's list, not to the
\* copy (C9 tells it from UpdateStateLists)
UpdateStateListsAppendsToInput(steps, result) ==
    [input |-> Append(steps, result), output |-> steps]

\* the input state's list and the new state's list after update_state
UpdateStateLists(steps, result) ==
    LET copied == steps
    IN  [input |-> steps, output |-> Append(copied, result)]

\* json.dumps(final_answer, indent=2)
JsonDumps(v) == [kind |-> "json", value |-> v]

GenerateFinalAnswer(steps) ==
    IF Len(steps) = 0 THEN Text(NoAnswerFound)
    ELSE LET last == steps[Len(steps)]
         IN  IF last.kind = "list" THEN JsonDumps(last.value) ELSE last

-----------------------------------------------------------------------------
(* Inputs: questions and loaded tables *)

Col_2021_07 == <<"2", "0", "2", "1", "-", "0", "7">>
Col_2021_08 == <<"2", "0", "2", "1", "-", "0", "8">>
SalesCol == <<"S", "a", "l", "e", "s">>
PC_1000 == <<"P", "C", "-", "1", "0", "0", "0">>
PC_1000_X == <<"P", "C", "-", "1", "0", "0", "0", "-", "X">>
TotalSalesFor == <<"t", "o", "t", "a", "l", " ", "s", "a", "l", "e", "s", " ", "f", "o", "r", " ">>

\* A question is the concatenation of at most MaxWords of these, in this
\* order: the router's keywords (one of them capitalised), product names and
\* column names
Words == << TotalSalesFor,
            <<"T", "o", "p">>,
            KwProduct,
            KwSales,
            KwSell,
            <<"i", "n", "g">>,
            KwMonth,
            TotalSalesCol,
            PC_1000,
            <<"-", "X">>,
            Col_2021_08,
            Col_2021_07 >>

RECURSIVE Join(_, _)
Join(S, i) ==
    IF i > Len(Words) THEN <<>>
    ELSE (IF i \in S THEN Words[i] ELSE <<>>) \o Join(S, i + 1)

QuestionsOver(I) ==
    {Join(S, 1) : S \in {T \in SUBSET I : Cardinality(T) <= MaxWords}}

\* the questions put to run_agent
Questions == QuestionsOver({i \in 1..Len(Words) : Words[i] # TotalSalesFor})

\* the words the handlers react to: product names and column names
HandlerWords == {i \in 1..Len(Words) :
                    Words[i] \in {TotalSalesFor, TotalSalesCol, PC_1000,
                                  <<"-", "X">>, Col_2021_07}}

ColumnLayouts == { <<ProductNameCol, Col_2021_07, Col_2021_08>>,
                   <<ProductNameCol, TotalSalesCol, Col_2021_07>>,
                   <<ProductNameCol, SalesCol, Col_2021_07>> }

ProductNames == {PC_1000, PC_1000_X}
SalesRows == { <<1050, 2025>>, <<2025, 0>> }
RowKinds == {<<p>> \o s : p \in ProductNames, s \in SalesRows}

RowSeqs(n) == UNION {[1..k -> RowKinds] : k \in 0..n}

Tables == {[columns |-> c, rows |-> r] : c \in ColumnLayouts, r \in RowSeqs(MaxRows)}

-----------------------------------------------------------------------------
(* run_agent: load, call_tool, update_state, generate_final_answer *)

Init ==
    /\ question \in Questions
    /\ data \in Tables
    /\ intermediate_steps = <<>>
    /\ tool_name = ""
    /\ tool_response = None
    /\ updated_steps = <<>>
    /\ final_answer = None
    /\ pc = "start"

call_tool ==
    /\ pc = "start"
    /\ tool_name' = router(question, data)
    /\ tool_response' \in ToolResults(tool_name', question, data)
    /\ data' = DataAfter(tool_name', data)
    /\ pc' = "called"
    /\ UNCHANGED <<question, intermediate_steps, updated_steps, final_answer>>

\* the language model call raises; run_agent propagates the exception
call_tool_raises ==
    /\ pc = "start"
    /\ router(question, data) = "general_query"
    /\ tool_name' = "general_query"
    /\ pc' = "raised"
    /\ UNCHANGED <<question, data, intermediate_steps, tool_response,
                   updated_steps, final_answer>>

update_state ==
    /\ pc = "called"
    /\ LET lists == UpdateStateLists(intermediate_steps, tool_response)
       IN  /\ intermediate_steps' = lists.input
           /\ updated_steps' = lists.output
    /\ pc' = "updated"
    /\ UNCHANGED <<question, data, tool_name, tool_response, final_answer>>

generate_final_answer ==
    /\ pc = "updated"
    /\ final_answer' = GenerateFinalAnswer(updated_steps)
    /\ pc' = "done"
    /\ UNCHANGED <<question, data, intermediate_steps, tool_name, tool_response,
                   updated_steps>>

Next ==
    \/ call_tool
    \/ call_tool_raises
    \/ update_state
    \/ generate_final_answer

Spec == Init /\ [][Next]_vars

-----------------------------------------------------------------------------
(* Direct calls of the handlers and of update_state on one state, in any   *)
(* order and any number of times                                           *)

call_get_product_sales ==
    /\ pc = "start"
    /\ tool_name' = "get_product_sales"
    /\ tool_response' = get_product_sales(question, data)
    /\ UNCHANGED <<question, data, intermediate_steps, updated_steps, final_answer, pc>>

call_get_top_products ==
    /\ pc = "start"
    /\ tool_name' = "get_top_products"
    /\ tool_response' = get_top_products(data)
    /\ data' = TopProductsFrames(data).caller
    /\ UNCHANGED <<question, intermediate_steps, updated_steps, final_answer, pc>>

call_get_monthly_sales ==
    /\ pc = "start"
    /\ tool_name' = "get_monthly_sales"
    /\ tool_response' \in get_monthly_sales(question, data)
    /\ UNCHANGED <<question, data, intermediate_steps, updated_steps, final_answer, pc>>

call_update_state ==
    /\ pc = "start"
    /\ tool_response.kind # "none"
    /\ LET lists == UpdateStateLists(intermediate_steps, tool_response)
       IN  /\ intermediate_steps' = lists.input
           /\ updated_steps' = lists.output
    /\ UNCHANGED <<question, data, tool_name, tool_response, final_answer, pc>>

NextCalls ==
    \/ call_get_product_sales
    \/ call_get_top_products
    \/ call_get_monthly_sales
    \/ call_update_state

InitHandlers ==
    /\ question \in QuestionsOver(HandlerWords)
    /\ data \in Tables
    /\ intermediate_steps = <<>>
    /\ tool_name = ""
    /\ tool_response = None
    /\ updated_steps = <<>>
    /\ final_answer = None
    /\ pc = "start"

SpecCalls == InitHandlers /\ [][NextCalls]_vars

-----------------------------------------------------------------------------
(* get_top_products on tables of up to MaxTopRows rows *)

TopQuestion == <<"T", "o", "p">> \o KwProduct

TopTables ==
    {[columns |-> <<ProductNameCol, Col_2021_07, Col_2021_08>>, rows |-> r] :
        r \in RowSeqs(MaxTopRows)}

InitTop ==
    /\ question = TopQuestion
    /\ data \in TopTables
    /\ intermediate_steps = <<>>
    /\ tool_name = ""
    /\ tool_response = None
    /\ updated_steps = <<>>
    /\ final_answer = None
    /\ pc = "start"

SpecTop == InitTop /\ [][call_tool]_vars

-----------------------------------------------------------------------------
(* basic_sales_agent: get_product_total_sales and its two-node workflow *)

\* variant: the loop without its break, the last matching row wins
\* (C8 tells it from FirstMatchingProduct)
LastMatchingProduct(q, d) ==
    LET matches(product) == ProductMatches(q, product)
        hits == SelectSeq(Column(d, ProductNameCol), matches)
    IN  IF hits = <<>> THEN <<>> ELSE <<hits[Len(hits)]>>

\* the loop with its break: <<>> for None, else <<product_name>>
FirstMatchingProduct(q, d) ==
    LET matches(product) == ProductMatches(q, product)
        hits == SelectSeq(Column(d, ProductNameCol), matches)
    IN  IF hits = <<>> THEN <<>> ELSE <<hits[1]>>

\* f"{total:.2f}" of an amount in hundredths: whole part, point, two digits
Format2f(total) == <<total \div 100, ".", (total % 100) \div 10, total % 10>>

\* f"Total sales for {product_name}: {total_sales:.2f}"
TotalSalesMessage(product_name, total_sales) ==
    [kind |-> "fstr",
     value |-> <<"Total sales for ", product_name, ": ", Format2f(total_sales)>>]

get_product_total_sales(q, d) ==
    LET found == FirstMatchingProduct(q, d)
    IN  IF found = <<>> \/ found[1] = <<>>
        THEN Text(ProductNotFound)
        ELSE LET product_name == found[1]
                 is_sales(i) == d.columns[i] # ProductNameCol
                 is(row) == row[ColumnIndex(d, ProductNameCol)] = product_name
                 product_data == SelectSeq(d.rows, is)
                 cells(row) == [i \in 1..Len(row) |->
                                   IF is_sales(i) THEN row[i] ELSE 0]
             IN  IF product_data = <<>>
                 THEN Text(NoSalesData)
                 ELSE TotalSalesMessage(product_name, SumCells(cells(product_data[1])))

get_sales ==
    /\ pc = "start"
    /\ tool_name' = "get_product_total_sales"
    /\ tool_response' = get_product_total_sales(question, data)
    /\ pc' = "got_sales"
    /\ UNCHANGED <<question, data, intermediate_steps, updated_steps, final_answer>>

format_response ==
    /\ pc = "got_sales"
    /\ final_answer' = tool_response
    /\ pc' = "done"
    /\ UNCHANGED <<question, data, intermediate_steps, tool_name, tool_response,
                   updated_steps>>

NextBasic ==
    \/ get_sales
    \/ format_response

SpecBasic == InitHandlers /\ [][NextBasic]_vars

-----------------------------------------------------------------------------
(* Properties *)

InLowered(word) == Contains(Lower(question), word)

Rule1(q) == Contains(q, KwProduct) /\ (Contains(q, KwSales) \/ Contains(q, KwSell))
Rule2(q) == Contains(q, KwTop) /\ (Contains(q, KwProduct) \/ Contains(q, KwSelling))
Rule3(q) ==
    \/ Contains(q, KwMonth)
    \/ \E i \in 1..Len(data.columns) :
           /\ MatchesMonthPattern(data.columns[i])
           /\ Contains(q, data.columns[i])

\* C1: the router always answers, and answers by the first of its four rules
\* that the lowercased question satisfies; a question satisfying rule 1 and
\* rule 2 goes to get_product_sales.
C1_RouterFirstMatchWins ==
    pc \in {"called", "raised"} =>
        LET q == Lower(question)
            r1 == Rule1(q)
            r2 == Rule2(q)
            r3 == Rule3(q)
        IN  /\ tool_name \in {"get_product_sales", "get_top_products",
                              "get_monthly_sales", "general_query"}
            /\ r1 => tool_name = "get_product_sales"
            /\ (~r1 /\ r2) => tool_name = "get_top_products"
            /\ (~r1 /\ ~r2 /\ r3) => tool_name = "get_monthly_sales"
            /\ (~r1 /\ ~r2 /\ ~r3) => tool_name = "general_query"

C1_Witness ==
    /\ pc = "called"
    /\ Rule1(Lower(question)) /\ Rule2(Lower(question))
    /\ tool_name = "get_product_sales"

\* C2 as stated: every question containing "top" and "product" is routed to
\* get_top_products.
C2_TopAndProductIsTopProducts ==
    pc = "called" =>
        LET q == Lower(question)
        IN  (Contains(q, KwTop) /\ Contains(q, KwProduct)) =>
                tool_name = "get_top_products"

\* C2 amended: every question containing "top" and "product" but neither
\* "sales" nor "sell" is routed to get_top_products, and call_tool returns
\* get_top_products' result.
C2_TopAndProductWithoutSales ==
    pc = "called" =>
        LET q == Lower(question)
        IN  (/\ Contains(q, KwTop) /\ Contains(q, KwProduct)
             /\ ~Contains(q, KwSales) /\ ~Contains(q, KwSell)) =>
                /\ tool_name = "get_top_products"
                /\ tool_response.kind = "list"
                /\ tool_response = get_top_products(data)

C2_Witness ==
    /\ pc = "called"
    /\ InLowered(KwTop) /\ InLowered(KwProduct)
    /\ tool_name = "get_top_products"
    /\ tool_response.kind = "list"
    /\ Len(tool_response.value) = 2

\* q, lowercased, contains the lowercased name of a product of the table
MentionsProductOfTable(q) ==
    \E r \in 1..Len(data.rows) : Contains(q, Lower(data.rows[r][1]))

\* C3 as stated: every question containing the name of a product of the table
\* and "sales" is routed to get_product_sales.
C3_ProductNameAndSalesIsProductSales ==
    pc = "called" =>
        LET q == Lower(question)
        IN  (Contains(q, KwSales) /\ MentionsProductOfTable(q)) =>
                tool_name = "get_product_sales"

\* C3 amended: every question containing the name of a product of the table,
\* "sales" and the word "product" is routed to get_product_sales.
C3_ProductWordAndSalesIsProductSales ==
    pc = "called" =>
        LET q == Lower(question)
        IN  (/\ Contains(q, KwSales) /\ Contains(q, KwProduct)
             /\ MentionsProductOfTable(q)) =>
                tool_name = "get_product_sales"

C3_Witness ==
    /\ pc = "called"
    /\ MentionsProductOfTable(Lower(question))
    /\ InLowered(KwSales) /\ InLowered(KwProduct)
    /\ ~InLowered(KwSell)
    /\ tool_name = "get_product_sales"

\* the rows whose lowercased product name occurs in the lowercased question
MatchingRows == {r \in 1..Len(data.rows) : InLowered(Lower(data.rows[r][1]))}

\* the record of row r: its product name with its own non-product cells
RecordOfRow(r) ==
    [product |-> data.rows[r][1],
     sales |-> [j \in 1..(Len(data.columns) - 1) |->
                   <<data.columns[j + 1], data.rows[r][j + 1]>>]]

\* C4: get_product_sales returns one record per matching row, in row order,
\* each pairing the product name with the values of that same row; with no
\* matching row it returns "No matching products found in the data.".
C4_OneRecordPerMatchingRow ==
    tool_name = "get_product_sales" =>
        IF MatchingRows = {}
        THEN tool_response = Text(NoMatchingProducts)
        ELSE /\ tool_response.kind = "list"
             /\ Len(tool_response.value) = Cardinality(MatchingRows)
             /\ \A r \in MatchingRows :
                    tool_response.value[Cardinality({j \in MatchingRows : j <= r})]
                        = RecordOfRow(r)

ProductColumn == [r \in 1..Len(data.rows) |-> data.rows[r][1]]

\* C5 as stated: with rows PC-1000, PC-1000-X and the question
\* "total sales for PC-1000" the result holds two records.
C5_BothRowsMatch ==
    (/\ tool_name = "get_product_sales"
     /\ question = TotalSalesFor \o PC_1000
     /\ ProductColumn = <<PC_1000, PC_1000_X>>) =>
        /\ tool_response.kind = "list"
        /\ Len(tool_response.value) = 2

\* C5 amended: with rows PC-1000, PC-1000-X the question
\* "total sales for PC-1000" matches the PC-1000 row only and the result holds
\* that one record; the question "total sales for PC-1000-X" matches both rows
\* and the result holds two records.
C5_OnlyContainedNamesMatch ==
    (tool_name = "get_product_sales" /\ ProductColumn = <<PC_1000, PC_1000_X>>) =>
        /\ question = TotalSalesFor \o PC_1000 =>
               /\ tool_response.kind = "list"
               /\ Len(tool_response.value) = 1
               /\ tool_response.value[1] = RecordOfRow(1)
        /\ question = TotalSalesFor \o PC_1000_X =>
               /\ tool_response.kind = "list"
               /\ Len(tool_response.value) = 2
               /\ tool_response.value[1] = RecordOfRow(1)
               /\ tool_response.value[2] = RecordOfRow(2)

C5_Witness ==
    /\ tool_name = "get_product_sales"
    /\ question = TotalSalesFor \o PC_1000
    /\ ProductColumn = <<PC_1000, PC_1000_X>>
    /\ tool_response.kind = "list"

\* the sum of row r over the columns after the first
TotalOf(r) == data.rows[r][2] + data.rows[r][3]

\* row j comes before row r in the ranking: a larger total, or the same total
\* and an earlier row
Outranks(j, r) == TotalOf(j) > TotalOf(r) \/ (TotalOf(j) = TotalOf(r) /\ j < r)

RankOf(r) == Cardinality({j \in 1..Len(data.rows) : Outranks(j, r)}) + 1

\* C6: get_top_products returns a list of min(5, rows) (product, total)
\* pairs: the rows ranked by total descending, equal totals in row order,
\* cut after the fifth; the list is empty for an empty table.
C6_TopProductsRanked ==
    (pc = "called" /\ tool_name = "get_top_products") =>
        LET n == Len(data.rows)
            m == IF n < TopN THEN n ELSE TopN
        IN  /\ tool_response.kind = "list"
            /\ Len(tool_response.value) = m
            /\ \A r \in 1..n :
                   RankOf(r) <= m =>
                       tool_response.value[RankOf(r)]
                           = << <<ProductNameCol, data.rows[r][1]>>,
                                <<TotalSalesCol, TotalOf(r)>> >>

C6_Witness ==
    /\ pc = "called"
    /\ tool_name = "get_top_products"
    /\ Len(data.rows) = TopN + 1
    /\ Len(tool_response.value) = TopN
    /\ \E r \in 1..Len(data.rows) : RankOf(r) > TopN /\ r < Len(data.rows)
    /\ \E j, r \in 1..Len(data.rows) :
           /\ j < r
           /\ TotalOf(j) = TotalOf(r)
           /\ data.rows[j][1] # data.rows[r][1]
           /\ RankOf(r) <= TopN

\* the columns get_monthly_sales may pick: named in the raw question and
\* neither "Product Name" nor "Total Sales"
MentionedColumns ==
    {c \in 1..Len(data.columns) :
        /\ data.columns[c] \notin {ProductNameCol, TotalSalesCol}
        /\ Contains(question, data.columns[c])}

\* the (product, value) record of row r for column c
MonthlyRecord(c, r) ==
    << <<ProductNameCol, data.rows[r][1]>>, <<data.columns[c], data.rows[r][c]>> >>

\* C7: get_monthly_sales answers for the first column in column order, other
\* than "Product Name" and "Total Sales", whose name occurs verbatim in the raw
\* question: one (product, value) record per row, by value descending; if
\* there is no such column it answers "No specific month mentioned in the
\* question.", whatever made the router choose it.
C7_MonthlySalesOfFirstMentionedColumn ==
    (pc = "called" /\ tool_name = "get_monthly_sales") =>
        LET mentioned == MentionedColumns
            first == CHOOSE c \in mentioned : \A x \in mentioned : c <= x
            n == Len(data.rows)
            v == tool_response.value
        IN  IF mentioned = {}
            THEN tool_response = Text(NoMonthMentioned)
            ELSE /\ tool_response.kind = "list"
                 /\ Len(v) = n
                 /\ \A k \in 1..(n - 1) : v[k][2][2] >= v[k + 1][2][2]
                 /\ \A r \in 1..n :
                        Cardinality({k \in 1..n : v[k] = MonthlyRecord(first, r)})
                            = Cardinality({j \in 1..n :
                                  MonthlyRecord(first, j) = MonthlyRecord(first, r)})

C7_Witness ==
    /\ pc = "called"
    /\ tool_name = "get_monthly_sales"
    /\ MentionedColumns = {2, 3}
    /\ tool_response.kind = "list"
    /\ Len(tool_response.value) = 2
    /\ tool_response.value[1][2][2] > tool_response.value[2][2][2]
    /\ tool_response.value[1] = MonthlyRecord(2, 2)

\* C8: get_product_total_sales answers from the first matching row only:
\* "Total sales for {its product}: {the sum of its non-product cells, two
\* decimals}"; with no matching row it answers "Product not found in the
\* data.".
C8_FirstMatchOnly ==
    (pc = "done" /\ tool_name = "get_product_total_sales") =>
        IF MatchingRows = {}
        THEN final_answer = Text(ProductNotFound)
        ELSE LET first == CHOOSE r \in MatchingRows : \A x \in MatchingRows : r <= x
                 text == final_answer.value
             IN  /\ final_answer.kind = "fstr"
                 /\ text[1] = "Total sales for "
                 /\ text[2] = data.rows[first][1]
                 /\ text[3] = ": "
                 /\ text[4][2] = "."
                 /\ text[4][3] \in 0..9 /\ text[4][4] \in 0..9
                 /\ 100 * text[4][1] + 10 * text[4][3] + text[4][4] = TotalOf(first)

C8_Witness ==
    /\ pc = "done"
    /\ tool_name = "get_product_total_sales"
    /\ MatchingRows = {1, 2}
    /\ data.rows[1][1] # data.rows[2][1]
    /\ TotalOf(1) # TotalOf(2)
    /\ final_answer.kind = "fstr"
    /\ final_answer.value[2] = data.rows[1][1]

\* C9: run_agent reaches generate_final_answer with exactly one intermediate
\* step; a handler result that is a plain string is the final answer,
\* unchanged, and the placeholder "I couldn't find an answer to your
\* question." is never the final answer.
C9_StringResultIsFinalAnswer ==
    pc = "done" =>
        /\ Len(updated_steps) = 1
        /\ tool_response.kind = "str" => final_answer = tool_response
        /\ final_answer.kind = "str" => final_answer.value # NoAnswerFound

C9_Witness ==
    /\ pc = "done"
    /\ tool_name = "get_product_sales"
    /\ tool_response = Text(NoMatchingProducts)
    /\ final_answer = Text(NoMatchingProducts)

\* C10: no call of get_product_sales, get_top_products, get_monthly_sales or
\* update_state changes the table (rows, columns, column order) or the input
\* state's intermediate_steps.
C10_TableAndInputStateUnchanged ==
    [][data' = data /\ intermediate_steps' = intermediate_steps]_vars

C10_Witness ==
    /\ tool_name = "get_top_products"
    /\ Len(updated_steps) = 1
    /\ updated_steps[1].kind = "list"
    /\ Len(updated_steps[1].value) = 2
    /\ intermediate_steps = <<>>
    /\ \A c \in 1..Len(data.columns) : data.columns[c] # TotalSalesCol

====
